---------------------------- MODULE Spec2Model ----------------------------
(***************************************************************************)
(* A model of the DBMF holdings worker (src/src/index.js): one request     *)
(* fetches the holdings spreadsheet, keeps the rows that carry a ticker,   *)
(* fetches a quote per kept row in batches, computes each holding's        *)
(* contribution, ranks the holdings and answers with one HTML page.        *)
(*                                                                         *)
(* Representation.  A JavaScript string is a sequence of one-character     *)
(* strings.  A JavaScript value is a record [t, s, n]: t is "undef",       *)
(* "str" (s holds the characters), "num" (n holds the number) or "nan".    *)
(* Numbers are fixed-point integers: a holdings fraction is counted in     *)
(* units of 1e-4, a percent change in hundredths of a percent, and a       *)
(* contribution (their product) in units of 1e-8.                          *)
(***************************************************************************)
EXTENDS Integers, Sequences, FiniteSets, TLC

VARIABLES
    pc,                     \* where the handler stands
    jsonData,               \* rows parsed from the sheet (index.js:37)
    filteredData,           \* rows kept by the ticker filter (index.js:40)
    i,                      \* loop index of fetchTickerPrices (index.js:99)
    batchResults,           \* promises of the batch being awaited (index.js:101)
    inflight,               \* kept-row positions with a quote request outstanding
    issued,                 \* number of kept rows fetchSinglePrice was called for
    degraded,               \* kept-row positions whose fetch outcome was a failure
    prices,                 \* ticker key -> percent-change text (index.js:95)
    dataWithContributions,  \* enriched holdings, ranked (index.js:50, 71)
    totalContribution,      \* fund total (index.js:88)
    responses,              \* responses returned by the handler
    excelRequests,          \* spreadsheet requests issued
    parsed,                 \* TRUE once XLSX.read was called
    excel,                  \* what the spreadsheet source did
    ticker,                 \* input of the symbol resolver
    resolved,               \* output of the symbol resolver
    quoteRequests,          \* quote requests sent, in order (index.js:172, 118)
    settled,                \* kept-row position -> what its fetchSinglePrice returned
    dateNum,                \* input of formatDate
    dateText,               \* output of formatDate
    quote,                  \* what the chart endpoint answered to one request
    changeText              \* what fetchSinglePrice returned for it

vars == <<pc, jsonData, filteredData, i, batchResults, inflight, issued, degraded,
          prices, dataWithContributions, totalContribution, responses,
          excelRequests, parsed, excel, ticker, resolved, quoteRequests, settled,
          dateNum, dateText, quote, changeText>>

---------------------------------------------------------------------------
(* Bounds of the model *)

MaxRows == 13
MaxFailures == 2
MaxCalcRows == 3
MaxTickerLen == 5
MaxWeight == 30
MaxDateLen == 8
MaxPriceSteps == 2

(* Program constants *)

batchSize == 10

---------------------------------------------------------------------------
(* JavaScript values *)

Undef == [t |-> "undef", s |-> <<>>, n |-> 0]
NaN == [t |-> "nan", s |-> <<>>, n |-> 0]
StrV(s) == [t |-> "str", s |-> s, n |-> 0]
NumV(n) == [t |-> "num", s |-> <<>>, n |-> n]

\* ToBoolean: undefined, "", 0 and NaN are falsy.
Truthy(v) ==
    CASE v.t = "undef" -> FALSE
      [] v.t = "nan" -> FALSE
      [] v.t = "str" -> v.s # <<>>
      [] v.t = "num" -> v.n # 0

UpperLetters ==
    {"A", "B", "C", "D", "E", "F", "G", "H", "I", "J", "K", "L", "M",
     "N", "O", "P", "Q", "R", "S", "T", "U", "V", "W", "X", "Y", "Z"}

Digits == <<"0", "1", "2", "3", "4", "5", "6", "7", "8", "9">>

IsUpper(c) == c \in UpperLetters
IsDigit(c) == \E d \in 1..10 : Digits[d] = c
IsSpace(c) == c \in {" ", "\t", "\n"}

DigitValue(c) == (CHOOSE d \in 1..10 : Digits[d] = c) - 1

RECURSIVE NatToStr(_)
NatToStr(k) ==
    IF k < 10 THEN <<Digits[k + 1]>>
    ELSE NatToStr(k \div 10) \o <<Digits[(k % 10) + 1]>>

\* String(v)
JSString(v) ==
    CASE v.t = "str" -> v.s
      [] v.t = "num" -> IF v.n < 0 THEN <<"-">> \o NatToStr(-v.n) ELSE NatToStr(v.n)
      [] v.t = "nan" -> <<"N", "a", "N">>
      [] v.t = "undef" -> <<"u", "n", "d", "e", "f", "i", "n", "e", "d">>

\* String.prototype.trim
RECURSIVE TrimLeft(_)
TrimLeft(s) ==
    IF s # <<>> /\ IsSpace(Head(s)) THEN TrimLeft(Tail(s)) ELSE s

RECURSIVE TrimRight(_)
TrimRight(s) ==
    IF s # <<>> /\ IsSpace(s[Len(s)]) THEN TrimRight(SubSeq(s, 1, Len(s) - 1)) ELSE s

Trim(s) == TrimRight(TrimLeft(s))

\* str.replace('%', ''): removes the first "%".
ReplacePercent(s) ==
    IF \E k \in 1..Len(s) : s[k] = "%"
    THEN LET k == CHOOSE k \in 1..Len(s) : s[k] = "%" /\ \A j \in 1..(k - 1) : s[j] # "%"
         IN SubSeq(s, 1, k - 1) \o SubSeq(s, k + 1, Len(s))
    ELSE s

RECURSIVE DigitRun(_)
\* the longest leading run of digits of s
DigitRun(s) ==
    IF s # <<>> /\ IsDigit(Head(s)) THEN <<Head(s)>> \o DigitRun(Tail(s)) ELSE <<>>

RECURSIVE DigitsToNat(_)
DigitsToNat(s) ==
    IF s = <<>> THEN 0 ELSE 10 * DigitsToNat(SubSeq(s, 1, Len(s) - 1)) + DigitValue(s[Len(s)])

\* parseFloat(s), in hundredths: optional blanks and sign, digits, optionally "."
\* and digits; the parse stops at the first other character (a grouping comma
\* included) and is NaN when no digit was read.
ParseFloat(s) ==
    LET t == TrimLeft(s)
        neg == t # <<>> /\ Head(t) = "-"
        u == IF t # <<>> /\ Head(t) \in {"+", "-"} THEN Tail(t) ELSE t
        ip == DigitRun(u)
        rest == SubSeq(u, Len(ip) + 1, Len(u))
        fp == IF rest # <<>> /\ Head(rest) = "." THEN DigitRun(Tail(rest)) ELSE <<>>
        f2 == SubSeq(fp \o <<"0", "0">>, 1, 2)
        mag == 100 * DigitsToNat(ip) + DigitsToNat(f2)
    IN  IF ip = <<>> /\ fp = <<>> THEN NaN
        ELSE NumV(IF neg THEN -mag ELSE mag)

Abs(x) == IF x < 0 THEN -x ELSE x

RECURSIVE Grouped(_)
\* en-US grouping of a natural number: a comma every three digits
Grouped(k) ==
    IF k < 1000 THEN NatToStr(k)
    ELSE Grouped(k \div 1000) \o <<",">>
         \o SubSeq(<<"0", "0">> \o NatToStr(k % 1000), Len(NatToStr(k % 1000)), Len(NatToStr(k % 1000)) + 2)

\* formatChangePercent(num/den) for a number: sign always shown, two decimals
\* (rounded half away from zero), en-US grouping, then "%".
FormatChangeNumber(num, den) ==
    LET neg == (num < 0 /\ den > 0) \/ (num > 0 /\ den < 0)
        h == (2 * 100 * Abs(num) + Abs(den)) \div (2 * Abs(den))
        frac == h % 100
    IN  <<IF neg THEN "-" ELSE "+">> \o Grouped(h \div 100) \o <<".">>
        \o <<Digits[(frac \div 10) + 1], Digits[(frac % 10) + 1]>> \o <<"%">>

\* formatChangePercent(v / den) of a JavaScript value v (index.js:265-273)
formatChangePercent(v, den) ==
    CASE v.t = "undef" -> <<>>
      [] v.t = "str" /\ v.s = <<>> -> <<>>
      [] v.t = "num" -> FormatChangeNumber(v.n, den)
      [] OTHER -> <<"N", "a", "N", "%">>

NA == <<"N", "/", "A">>

\* formatDate (index.js:231-239)
formatDate(v) ==
    IF ~Truthy(v) THEN <<>>
    ELSE LET dateStr == JSString(v)
         IN IF Len(dateStr) = 8
            THEN SubSeq(dateStr, 1, 4) \o <<"-">> \o SubSeq(dateStr, 5, 6)
                 \o <<"-">> \o SubSeq(dateStr, 7, 8)
            ELSE dateStr

---------------------------------------------------------------------------
(* Symbol resolution (index.js:154-171, 209-228) *)

\* the lengths k of a first group matched by /^([A-Z]+?)([A-Z]\d+)$/
ContractSplits(s) ==
    {k \in 1..(Len(s) - 2) :
        /\ \A j \in 1..(k + 1) : IsUpper(s[j])
        /\ \A j \in (k + 2)..Len(s) : IsDigit(s[j])}

\* ticker.match(/^([A-Z]+?)([A-Z]\d+)$/): the lazy first group takes the
\* shortest split; <<>> stands for null.
MatchContract(s) ==
    IF ContractSplits(s) = {} THEN <<>>
    ELSE LET k == CHOOSE k \in ContractSplits(s) : \A m \in ContractSplits(s) : k <= m
         IN <<SubSeq(s, 1, k)>>

\* ticker.match(/^([A-Z]+)/): the greedy leading run of capitals, or null.
MatchLetters(s) ==
    LET ks == {k \in 1..Len(s) : \A j \in 1..k : IsUpper(s[j])}
    IN  IF ks = {} THEN <<>>
        ELSE LET k == CHOOSE k \in ks : \A m \in ks : m <= k
             IN <<SubSeq(s, 1, k)>>

\* a prefix that is the whole leading run of capitals, month code included
leadingRunPrefix(s) ==
    LET simple == MatchLetters(s)
    IN  IF simple # <<>> /\ simple[1] # <<>> THEN simple[1] ELSE s

\* commodityPrefix of fetchSinglePrice (index.js:155-156)
commodityPrefix(s) ==
    LET match == MatchContract(s)
    IN  IF match # <<>> THEN match[1]
        ELSE LET simple == MatchLetters(s)
             IN IF simple # <<>> /\ simple[1] # <<>> THEN simple[1] ELSE s

\* a conversion that knows only the leading run of capitals
convertLeadingRun(s) ==
    LET simpleMatch == MatchLetters(s)
    IN  IF simpleMatch # <<>> THEN simpleMatch[1] \o <<"=", "F">> ELSE s

\* convertToYahooSymbol (index.js:209-228)
convertToYahooSymbol(s) ==
    LET match == MatchContract(s)
        simpleMatch == MatchLetters(s)
    IN  IF match # <<>> THEN match[1] \o <<"=", "F">>
        ELSE IF simpleMatch # <<>> THEN simpleMatch[1] \o <<"=", "F">>
        ELSE s

\* The source fetchSinglePrice asks for a string ticker (index.js:159-171).
Route(s) ==
    IF commodityPrefix(s) = <<"M", "F", "S">>
        THEN [source |-> "barchart", symbol |-> <<"D", "I">>]
    ELSE IF commodityPrefix(s) = <<"M", "E", "S">>
        THEN [source |-> "barchart", symbol |-> <<"M", "0">>]
    ELSE [source |-> "yahoo", symbol |-> convertToYahooSymbol(s)]

---------------------------------------------------------------------------
(* Quote fetching (index.js:114-207) *)

\* What the remote does with one quote request: the connection fails (net is
\* "reject") or a response arrives; ok is response.ok; json tells whether the
\* body parses as JSON; meta whether chart.result[0].meta is there, with its
\* three fields; percentChange holds the text captured by
\* /"percentChange":"([^"]+)"/ in the page, <<>> when the page has no match.
QuoteOutcome(net, ok, json, meta, price, chartPrev, prev, pct) ==
    [net |-> net, ok |-> ok, json |-> json, meta |-> meta,
     regularMarketPrice |-> price, chartPreviousClose |-> chartPrev,
     previousClose |-> prev, percentChange |-> pct]

\* no request was answered yet
NoQuote == QuoteOutcome("none", FALSE, FALSE, FALSE, Undef, Undef, Undef, <<>>)

Returned(v) == [threw |-> FALSE, v |-> v]
Threw(m) == [threw |-> TRUE, v |-> m]

Fulfilled(v) == [st |-> "fulfilled", v |-> v]
Rejected(m) == [st |-> "rejected", v |-> m]
Pending == [st |-> "pending", v |-> <<>>]

\* fetchBarchartPrice (index.js:114-150): its own try/catch absorbs a failed fetch.
fetchBarchartPrice(o) ==
    IF o.net = "reject" THEN NA
    ELSE IF ~o.ok THEN NA
    ELSE IF o.percentChange # <<>> /\ o.percentChange[1] # <<>>
        THEN LET percentValue == ParseFloat(ReplacePercent(o.percentChange[1]))
             IN IF percentValue.t # "nan" THEN formatChangePercent(percentValue, 100) ELSE NA
    ELSE NA

\* a try block that reads previousClose first and chartPreviousClose as fallback
SinglePriceTryCloseFirst(tk, o) ==
    IF tk.t # "str" THEN Threw("ticker.match is not a function")
    ELSE IF Route(tk.s).source = "barchart" THEN Returned(fetchBarchartPrice(o))
    ELSE IF o.net = "reject" THEN Threw("fetch failed")
    ELSE IF ~o.ok THEN Returned(NA)
    ELSE IF ~o.json THEN Threw("Unexpected token in JSON")
    ELSE LET currentPrice == o.regularMarketPrice
             previousClose == IF Truthy(o.previousClose)
                              THEN o.previousClose ELSE o.chartPreviousClose
         IN IF o.meta /\ Truthy(currentPrice) /\ Truthy(previousClose)
            THEN IF currentPrice.t = "num" /\ previousClose.t = "num"
                 THEN Returned(FormatChangeNumber((currentPrice.n - previousClose.n) * 100,
                                                  previousClose.n))
                 ELSE Returned(formatChangePercent(NaN, 1))
            ELSE Returned(NA)

\* The try block of fetchSinglePrice (index.js:153-202) for the ticker value tk:
\* what it returns, or that it threw.
SinglePriceTry(tk, o) ==
    IF tk.t # "str" THEN Threw("ticker.match is not a function")
    ELSE IF Route(tk.s).source = "barchart" THEN Returned(fetchBarchartPrice(o))
    ELSE IF o.net = "reject" THEN Threw("fetch failed")
    ELSE IF ~o.ok THEN Returned(NA)
    ELSE IF ~o.json THEN Threw("Unexpected token in JSON")
    ELSE LET currentPrice == o.regularMarketPrice
             previousClose == IF Truthy(o.chartPreviousClose)
                              THEN o.chartPreviousClose ELSE o.previousClose
         IN IF o.meta /\ Truthy(currentPrice) /\ Truthy(previousClose)
            THEN IF currentPrice.t = "num" /\ previousClose.t = "num"
                 THEN Returned(FormatChangeNumber((currentPrice.n - previousClose.n) * 100,
                                                  previousClose.n))
                 ELSE Returned(formatChangePercent(NaN, 1))
            ELSE Returned(NA)

\* a fetchSinglePrice whose catch block rethrows
fetchSinglePriceRethrows(tk, o) ==
    LET r == SinglePriceTry(tk, o)
    IN  IF r.threw THEN Rejected(r.v) ELSE Fulfilled(r.v)

\* fetchSinglePrice (index.js:152-207): the promise it returns settles so.
fetchSinglePrice(tk, o) ==
    LET r == SinglePriceTry(tk, o)
    IN  IF r.threw THEN Fulfilled(NA) ELSE Fulfilled(r.v)

\* fetchSinglePrice sends a request only when ticker.match did not throw.
SendsRequest(tk) == tk.t = "str"

---------------------------------------------------------------------------
(* The pipeline after the sheet was parsed (index.js:39-91) *)

Row(tk, pct) == [TICKER |-> tk, PCT_HOLDINGS |-> pct]

\* the predicate of jsonData.filter (index.js:40-43)
HasTicker(row) ==
    Truthy(row.TICKER) /\ Trim(JSString(row.TICKER)) # <<>>

Filtered(rows) == SelectSeq(rows, HasTicker)

\* tickers (index.js:46)
Tickers(kept) == [k \in 1..Len(kept) |-> kept[k].TICKER]

\* The property key a ticker value is stored and looked up under.
Key(tk) == JSString(tk)

\* prices[ticker]
Lookup(pr, tk) == IF Key(tk) \in DOMAIN pr THEN StrV(pr[Key(tk)]) ELSE Undef

\* ToNumber of a cell, in units of 1e-4
ToNumber(v) ==
    CASE v.t = "num" -> v
      [] v.t = "str" /\ Trim(v.s) = <<>> -> NumV(0)
      [] v.t = "str" /\ Trim(v.s) # <<>> /\ DigitRun(Trim(v.s)) = Trim(v.s)
            -> NumV(10000 * DigitsToNat(Trim(v.s)))
      [] OTHER -> NaN

Mul(a, b) == IF a.t = "num" /\ b.t = "num" THEN NumV(a.n * b.n) ELSE NaN
Add(a, b) == IF a.t = "num" /\ b.t = "num" THEN NumV(a.n + b.n) ELSE NaN
Sub(a, b) == IF a.t = "num" /\ b.t = "num" THEN NumV(a.n - b.n) ELSE NaN

\* an enrichment that multiplies whatever text it is given
EnrichUnguarded(row, dailyChangeStr) ==
    LET pct == ParseFloat(ReplacePercent(dailyChangeStr.s))
    IN  [original |-> row, dailyChangeStr |-> dailyChangeStr,
         dailyChangePct |-> pct,
         contribution |-> Mul(ToNumber(row.PCT_HOLDINGS), pct)]

\* One element of dataWithContributions (index.js:50-68); parseFloat(..)/100
\* of a text in hundredths of a percent is that many units of 1e-4.
Enrich(row, dailyChangeStr) ==
    IF Truthy(dailyChangeStr) /\ dailyChangeStr.s # NA
    THEN LET dailyChangePct == ParseFloat(ReplacePercent(dailyChangeStr.s))
         IN [original |-> row, dailyChangeStr |-> dailyChangeStr,
             dailyChangePct |-> dailyChangePct,
             contribution |-> Mul(ToNumber(row.PCT_HOLDINGS), dailyChangePct)]
    ELSE [original |-> row, dailyChangeStr |-> dailyChangeStr,
          dailyChangePct |-> NumV(0), contribution |-> NumV(0)]

WithContributions(kept, pr) ==
    [k \in 1..Len(kept) |-> Enrich(kept[k], Lookup(pr, kept[k].TICKER))]

\* a comparator that ranks upwards
CompareAscending(a, b) == Sub(a.contribution, b.contribution)

\* the comparator (a, b) => b.contribution - a.contribution (index.js:71)
Compare(a, b) == Sub(b.contribution, a.contribution)

\* sort calls the comparator and reads a NaN answer as 0
Order(a, b) == LET v == Compare(a, b) IN IF v.t = "num" THEN v.n ELSE 0

RECURSIVE InsertSorted(_, _)
\* x goes behind every element it does not have to precede
InsertSorted(sorted, x) ==
    IF sorted = <<>> THEN <<x>>
    ELSE IF Order(sorted[Len(sorted)], x) > 0
         THEN InsertSorted(SubSeq(sorted, 1, Len(sorted) - 1), x) \o <<sorted[Len(sorted)]>>
         ELSE sorted \o <<x>>

RECURSIVE SortStable(_)
\* Array.prototype.sort (stable) with Compare, as an insertion sort
SortStable(items) ==
    IF items = <<>> THEN <<>>
    ELSE InsertSorted(SortStable(SubSeq(items, 1, Len(items) - 1)), items[Len(items)])

\* a total that leaves the first ranked holding out
SumWithoutFirst(items) ==
    LET Sum[k \in 0..Len(items)] ==
            IF k <= 1 THEN NumV(0) ELSE Add(Sum[k - 1], items[k].contribution)
    IN  Sum[Len(items)]

RECURSIVE SumContributions(_)
\* dataWithContributions.reduce((sum, item) => sum + item.contribution, 0)
SumContributions(items) ==
    IF items = <<>> THEN NumV(0)
    ELSE Add(SumContributions(SubSeq(items, 1, Len(items) - 1)),
             items[Len(items)].contribution)

\* the class of a Daily Change or Contribution cell (index.js:307-314)
CellClass(text) ==
    IF text # <<>> /\ text # NA
    THEN LET numericValue == ParseFloat(ReplacePercent(text))
         IN IF numericValue.t = "num" /\ numericValue.n > 0 THEN "positive-change"
            ELSE IF numericValue.t = "num" /\ numericValue.n < 0 THEN "negative-change"
            ELSE ""
    ELSE ""

\* the class of the total cell (index.js:325-326)
TotalClass(total) ==
    IF total.t = "num" /\ total.n > 0 THEN "positive-change"
    ELSE IF total.t = "num" /\ total.n < 0 THEN "negative-change"
    ELSE ""

\* One element of formattedData (index.js:74-85) with the classes its cells get;
\* contribution * 100 of a value counted in 1e-8 is that value over 1e6.
FormatRow(item) ==
    LET daily == IF Truthy(item.dailyChangeStr) THEN item.dailyChangeStr.s ELSE NA
        contrib == IF item.dailyChangeStr = StrV(NA) THEN NA
                   ELSE formatChangePercent(item.contribution, 1000000)
    IN  [Ticker |-> IF Truthy(item.original.TICKER) THEN item.original.TICKER ELSE StrV(<<>>),
         DailyChange |-> daily, Contribution |-> contrib,
         dailyClass |-> CellClass(daily), contributionClass |-> CellClass(contrib)]

\* buildColorCodedTable (index.js:275-339)
buildColorCodedTable(items, total) ==
    IF Len(items) = 0
    THEN [message |-> "No holdings with tickers found.", rows |-> <<>>,
          total |-> <<>>, totalClass |-> ""]
    ELSE [message |-> "",
          rows |-> [k \in 1..Len(items) |-> FormatRow(items[k])],
          total |-> formatChangePercent(total, 1000000),
          totalClass |-> TotalClass(total)]

NoTable == [message |-> "", rows |-> <<>>, total |-> <<>>, totalClass |-> ""]

\* the page response (index.js:634-639)
PageResponse(table) ==
    [status |-> 200, contentType |-> <<"text/html", "charset=UTF-8">>,
     cacheControl |-> "public, max-age=300",
     body |-> [kind |-> "page", status |-> 0, statusText |-> "", message |-> "",
               table |-> table]]

\* the response to a spreadsheet answer that is not ok (index.js:11-16)
FetchFailedResponse(status, statusText) ==
    [status |-> 500, contentType |-> <<"text/plain">>, cacheControl |-> "",
     body |-> [kind |-> "Failed to fetch Excel file", status |-> status,
               statusText |-> statusText, message |-> "", table |-> NoTable]]

\* a catch block that answers as a page
CatchAsPage(message) ==
    [status |-> 200, contentType |-> <<"text/html", "charset=UTF-8">>, cacheControl |-> "",
     body |-> [kind |-> "Error processing Excel file", status |-> 0, statusText |-> "",
               message |-> message, table |-> NoTable]]

\* the response of the catch block (index.js:641-647)
CatchResponse(message) ==
    [status |-> 500, contentType |-> <<"text/plain">>, cacheControl |-> "",
     body |-> [kind |-> "Error processing Excel file", status |-> 0, statusText |-> "",
               message |-> message, table |-> NoTable]]

---------------------------------------------------------------------------
(* The inputs of a request *)

Chars(str) ==
    CASE str = "CLZ5" -> <<"C", "L", "Z", "5">>
      [] str = "GCZ5" -> <<"G", "C", "Z", "5">>
      [] str = "MFSZ5" -> <<"M", "F", "S", "Z", "5">>
      [] str = "MESZ5" -> <<"M", "E", "S", "Z", "5">>
      [] str = "ES" -> <<"E", "S">>
      [] str = "+2.00%" -> <<"+", "2", ".", "0", "0", "%">>
      [] str = "-0.54%" -> <<"-", "0", ".", "5", "4", "%">>
      [] str = "-1.00%" -> <<"-", "1", ".", "0", "0", "%">>
      [] str = "+0.00%" -> <<"+", "0", ".", "0", "0", "%">>
      [] str = "n/a" -> <<"n", "/", "a">>

QuotedTickers == <<"CLZ5", "MFSZ5", "GCZ5", "MESZ5", "ES">>
Weights == <<1000, -500, 250, 0, -1000>>

\* Row k of the sheet a request may be served: every seventh row has no ticker
\* (a missing cell or blanks), every twelfth a numeric TICKER cell, the others
\* the tickers of futures contracts, some of them more than once.
SheetRow(k) ==
    LET pct == NumV(Weights[(k % Len(Weights)) + 1])
    IN  IF k % 7 = 0
        THEN Row(IF k % 2 = 1 THEN Undef ELSE StrV(<<" ", " ">>), pct)
        ELSE IF k % 12 = 0
        THEN Row(NumV(7), pct)
        ELSE Row(StrV(Chars(QuotedTickers[(k % Len(QuotedTickers)) + 1])), pct)

Sheet(n) == [k \in 1..n |-> SheetRow(k)]

\* What the spreadsheet source does: the connection fails, or a response
\* arrives with a status; reading the body may fail, XLSX.read may throw, and
\* otherwise the sheet holds the first `rows` rows.
ExcelOutcome(net, status, statusText, body, xlsx, rows, message) ==
    [net |-> net, status |-> status, statusText |-> statusText, body |-> body,
     xlsx |-> xlsx, rows |-> rows, message |-> message]

ExcelOutcomes ==
    {ExcelOutcome("reject", 0, "", "", "", 0, "Network connection lost"),
     ExcelOutcome("resp", 404, "Not Found", "", "", 0, ""),
     ExcelOutcome("resp", 503, "Service Unavailable", "", "", 0, ""),
     ExcelOutcome("resp", 200, "OK", "abort", "", 0, "The body stream was aborted"),
     ExcelOutcome("resp", 200, "OK", "ok", "corrupt", 0, "Unsupported ZIP file")}
    \cup {ExcelOutcome("resp", 200, "OK", "ok", "ok", n, "") : n \in 0..MaxRows}

\* a test of the status that lets every response through
AlwaysOk(status) == TRUE

\* response.ok (index.js:11)
Ok(status) == status \in 200..299

GoodQuote ==
    QuoteOutcome("resp", TRUE, TRUE, TRUE, NumV(102), NumV(100), NumV(100),
                 <<Chars("-0.54%")>>)

\* the failures of one quote fetch: no connection, a status that is not ok, a
\* body that is not JSON (and a page without the field), no metadata, metadata
\* without a price (and a percentChange that is no number)
FailingQuotes ==
    {QuoteOutcome("reject", FALSE, FALSE, FALSE, Undef, Undef, Undef, <<>>),
     QuoteOutcome("resp", FALSE, TRUE, TRUE, NumV(102), NumV(100), NumV(100),
                  <<Chars("-0.54%")>>),
     QuoteOutcome("resp", TRUE, FALSE, FALSE, Undef, Undef, Undef, <<>>),
     QuoteOutcome("resp", TRUE, TRUE, FALSE, Undef, Undef, Undef, <<Chars("n/a")>>),
     QuoteOutcome("resp", TRUE, TRUE, TRUE, Undef, NumV(100), Undef, <<Chars("n/a")>>)}

QuoteOutcomes == FailingQuotes \cup {GoodQuote}

\* fetchSinglePrice tabulated over the tickers of the sheet and the outcomes
SheetTickers == {SheetRow(k).TICKER : k \in 1..MaxRows}
Settlements ==
    [tk \in SheetTickers |-> [o \in QuoteOutcomes |-> fetchSinglePrice(tk, o)]]

---------------------------------------------------------------------------
(* The request handler (index.js:6-648) *)

Min(a, b) == IF a < b THEN a ELSE b

\* a slice without its upper end
SliceToEnd(from, n) == (from + 1)..n

\* the positions of tickers.slice(i, i + batchSize) (index.js:100)
BatchPositions(from, n) == (from + 1)..Min(from + batchSize, n)

\* a wait that ends with the first promise that settles
AnySettled(results) == \E p \in DOMAIN results : results[p].st # "pending"

\* await Promise.all(batchPromises) (index.js:102) goes on once a promise is
\* rejected or all are fulfilled
PromiseAllSettled(results) ==
    ~ /\ \A p \in DOMAIN results : results[p].st # "rejected"
      /\ \E p \in DOMAIN results : results[p].st # "fulfilled"

RECURSIVE StoreFirstWins(_, _, _, _)
\* a table that keeps the first result stored under a key
StoreFirstWins(pr, kept, results, positions) ==
    IF positions = {} THEN pr
    ELSE LET p == CHOOSE q \in positions : \A r \in positions : q <= r
             key == Key(kept[p].TICKER)
             put == [k \in DOMAIN pr \cup {key} |->
                        IF k \in DOMAIN pr THEN pr[k] ELSE results[p].v]
         IN StoreFirstWins(put, kept, results, positions \ {p})

RECURSIVE Store(_, _, _, _)
\* batch.forEach((ticker, index) => prices[ticker] = batchResults[index])
\* (index.js:104-106) over the positions from..to, in order
Store(pr, kept, results, positions) ==
    IF positions = {} THEN pr
    ELSE LET p == CHOOSE q \in positions : \A r \in positions : q <= r
             key == Key(kept[p].TICKER)
             put == [k \in DOMAIN pr \cup {key} |->
                        IF k = key THEN results[p].v ELSE pr[k]]
         IN Store(put, kept, results, positions \ {p})

\* batch.map(ticker => fetchSinglePrice(ticker)) (index.js:101): a string
\* ticker leaves a request outstanding, any other ticker value is settled at once.
StartedBatch(kept, positions) ==
    [p \in positions |->
        IF SendsRequest(kept[p].TICKER) THEN Pending
        ELSE Settlements[kept[p].TICKER][GoodQuote]]

RECURSIVE SentRequests(_, _)
\* the requests the calls fetchSinglePrice(ticker) of a batch send, in the order
\* of the calls: to the Barchart page (index.js:118) or the chart endpoint
\* (index.js:172); a ticker that is no string sends none
SentRequests(kept, positions) ==
    IF positions = {} THEN <<>>
    ELSE LET p == CHOOSE q \in positions : \A r \in positions : q <= r
             rest == SentRequests(kept, positions \ {p})
         IN IF SendsRequest(kept[p].TICKER)
            THEN <<[position |-> p, source |-> Route(kept[p].TICKER.s).source,
                    symbol |-> Route(kept[p].TICKER.s).symbol]>> \o rest
            ELSE rest

\* the function f with position p set to the text v
Record(f, p, v) == [q \in DOMAIN f \cup {p} |-> IF q = p THEN v ELSE f[q]]

Respond(r) ==
    /\ responses' = Append(responses, r)
    /\ pc' = "done"

\* index.js:49-91 and 634-639: enrich, rank, total, render, answer
Finish(kept, pr) ==
    /\ dataWithContributions' = SortStable(WithContributions(kept, pr))
    /\ totalContribution' = SumContributions(dataWithContributions')
    /\ Respond(PageResponse(buildColorCodedTable(dataWithContributions',
                                                  totalContribution')))

\* a loop that goes on while i <= tickers.length
LoopFromInclusive(kept, from, pr) ==
    /\ i' = from
    /\ prices' = pr
    /\ IF from <= Len(kept)
       THEN LET positions == BatchPositions(from, Len(kept))
            IN /\ batchResults' = StartedBatch(kept, positions)
               /\ inflight' = inflight \cup
                                {p \in positions : SendsRequest(kept[p].TICKER)}
               /\ issued' = issued + Cardinality(positions)
               /\ quoteRequests' = quoteRequests \o SentRequests(kept, positions)
               /\ degraded' = degraded \cup
                                {p \in positions : ~SendsRequest(kept[p].TICKER)}
               /\ settled' = [p \in DOMAIN settled \cup
                                     {q \in positions : ~SendsRequest(kept[q].TICKER)} |->
                                 IF p \in positions /\ ~SendsRequest(kept[p].TICKER)
                                 THEN batchResults'[p].v ELSE settled[p]]
               /\ pc' = "awaitBatch"
               /\ UNCHANGED <<dataWithContributions, totalContribution, responses>>
       ELSE /\ batchResults' = <<>>
            /\ UNCHANGED <<inflight, issued, degraded, quoteRequests, settled>>
            /\ Finish(kept, pr)

\* one round of the loop of fetchTickerPrices (index.js:99-102) from offset
\* `from`, or the rest of the handler when the loop is over
LoopFrom(kept, from, pr) ==
    /\ i' = from
    /\ prices' = pr
    /\ IF from < Len(kept)
       THEN LET positions == BatchPositions(from, Len(kept))
            IN /\ batchResults' = StartedBatch(kept, positions)
               /\ inflight' = inflight \cup
                                {p \in positions : SendsRequest(kept[p].TICKER)}
               /\ issued' = issued + Cardinality(positions)
               /\ quoteRequests' = quoteRequests \o SentRequests(kept, positions)
               /\ degraded' = degraded \cup
                                {p \in positions : ~SendsRequest(kept[p].TICKER)}
               /\ settled' = [p \in DOMAIN settled \cup
                                     {q \in positions : ~SendsRequest(kept[q].TICKER)} |->
                                 IF p \in positions /\ ~SendsRequest(kept[p].TICKER)
                                 THEN batchResults'[p].v ELSE settled[p]]
               /\ pc' = "awaitBatch"
               /\ UNCHANGED <<dataWithContributions, totalContribution, responses>>
       ELSE /\ batchResults' = <<>>
            /\ UNCHANGED <<inflight, issued, degraded, quoteRequests, settled>>
            /\ Finish(kept, pr)

\* The handler is called and asks for the spreadsheet (index.js:9).
Request ==
    /\ pc = "start"
    /\ excelRequests' = excelRequests + 1
    /\ pc' = "awaitExcel"
    /\ UNCHANGED <<jsonData, filteredData, i, batchResults, inflight, issued, degraded,
                   prices, dataWithContributions, totalContribution, responses, parsed,
                   excel, ticker, resolved, quoteRequests, settled, dateNum, dateText,
                   quote, changeText>>

\* The spreadsheet request settles (index.js:9-47 and, when no row is kept, up
\* to the response).
ExcelSettles ==
    /\ pc = "awaitExcel"
    /\ \E o \in ExcelOutcomes :
        /\ excel' = o
        /\ IF o.net = "reject" \/ (Ok(o.status) /\ o.body # "ok")
           THEN /\ Respond(CatchResponse(o.message))
                /\ UNCHANGED <<jsonData, filteredData, i, batchResults, inflight,
                               issued, degraded, prices, dataWithContributions,
                               totalContribution, parsed, quoteRequests, settled>>
           ELSE IF ~Ok(o.status)
           THEN /\ Respond(FetchFailedResponse(o.status, o.statusText))
                /\ UNCHANGED <<jsonData, filteredData, i, batchResults, inflight,
                               issued, degraded, prices, dataWithContributions,
                               totalContribution, parsed, quoteRequests, settled>>
           ELSE /\ parsed' = TRUE
                /\ IF o.xlsx # "ok"
                   THEN /\ Respond(CatchResponse(o.message))
                        /\ UNCHANGED <<jsonData, filteredData, i, batchResults,
                                       inflight, issued, degraded, prices,
                                       dataWithContributions, totalContribution,
                                       quoteRequests, settled>>
                   ELSE /\ jsonData' = Sheet(o.rows)
                        /\ filteredData' = Filtered(jsonData')
                        /\ LoopFrom(filteredData', 0, <<>>)
    /\ UNCHANGED <<excelRequests, ticker, resolved, dateNum, dateText, quote, changeText>>

\* the quote requests of this request that failed so far
Failures == {p \in degraded : SendsRequest(filteredData[p].TICKER)}

\* One outstanding quote request settles; at most MaxFailures of a request fail (index.js:172-202, 118-145).
QuoteSettles ==
    /\ \E p \in inflight, o \in QuoteOutcomes :
        /\ o \in FailingQuotes => Cardinality(Failures) < MaxFailures
        /\ inflight' = inflight \ {p}
        /\ IF pc = "awaitBatch" /\ p \in DOMAIN batchResults
           THEN /\ batchResults' =
                     [batchResults EXCEPT ![p] = Settlements[filteredData[p].TICKER][o]]
                /\ degraded' = IF o \in FailingQuotes THEN degraded \cup {p} ELSE degraded
                /\ settled' = Record(settled, p, batchResults'[p].v)
           ELSE UNCHANGED <<batchResults, degraded, settled>>
    /\ UNCHANGED <<pc, jsonData, filteredData, i, issued, prices,
                   dataWithContributions, totalContribution, responses, excelRequests,
                   parsed, excel, ticker, resolved, quoteRequests, dateNum, dateText,
                   quote, changeText>>

\* Promise.all of the batch settles and fetchTickerPrices goes on
\* (index.js:102-109), into the next batch or to the end of the handler.
BatchResume ==
    /\ pc = "awaitBatch"
    /\ PromiseAllSettled(batchResults)
    /\ IF \E p \in DOMAIN batchResults : batchResults[p].st = "rejected"
       THEN /\ Respond(CatchResponse(
                  batchResults[CHOOSE p \in DOMAIN batchResults :
                                   batchResults[p].st = "rejected"].v))
            /\ UNCHANGED <<i, batchResults, inflight, issued, degraded, prices,
                           dataWithContributions, totalContribution, quoteRequests,
                           settled>>
       ELSE LoopFrom(filteredData, i + batchSize,
                     Store(prices, filteredData, batchResults, DOMAIN batchResults))
    /\ UNCHANGED <<jsonData, filteredData, excelRequests, parsed, excel, ticker,
                   resolved, dateNum, dateText, quote, changeText>>

NoExcel == ExcelOutcome("none", 0, "", "", "", 0, "")
NoResolution == [prefix |-> <<>>, source |-> "", symbol |-> <<>>]

Init ==
    /\ pc = "start"
    /\ jsonData = <<>>
    /\ filteredData = <<>>
    /\ i = 0
    /\ batchResults = <<>>
    /\ inflight = {}
    /\ issued = 0
    /\ quoteRequests = <<>>
    /\ degraded = {}
    /\ settled = <<>>
    /\ prices = <<>>
    /\ dataWithContributions = <<>>
    /\ totalContribution = NumV(0)
    /\ responses = <<>>
    /\ excelRequests = 0
    /\ parsed = FALSE
    /\ excel = NoExcel
    /\ ticker = <<>>
    /\ resolved = NoResolution
    /\ dateNum = Undef
    /\ dateText = <<>>
    /\ quote = NoQuote
    /\ changeText = <<>>

Next == Request \/ ExcelSettles \/ QuoteSettles \/ BatchResume

Spec == Init /\ [][Next]_vars

\* BatchResume can be taken exactly when the handler waits for a batch whose
\* Promise.all has settled.
BatchResumeEnabled == pc = "awaitBatch" /\ PromiseAllSettled(batchResults)

\* The runtime runs the handler it has called, every request that was sent
\* settles in the end, and a settled Promise.all resumes the handler: weak
\* fairness of the four actions, the one of BatchResume written out with its
\* enabling condition.
FairSpec ==
    /\ Spec
    /\ WF_vars(Request)
    /\ WF_vars(ExcelSettles)
    /\ WF_vars(QuoteSettles)
    /\ ([]<>(~BatchResumeEnabled) \/ []<><<BatchResume>>_vars)

---------------------------------------------------------------------------
(* The pipeline on its own: the handler from the filter to the response     *)
(* (index.js:39-91, 634-639) over every small sheet and every price table   *)
(* fetchTickerPrices can have returned for it.                              *)

QuoteTexts == {NA, Chars("+2.00%"), Chars("-1.00%")}

CalcRows ==
    {Row(tk, NumV(0)) : tk \in {Undef, StrV(<<>>), StrV(<<" ", " ">>), NumV(0)}}
    \cup {Row(tk, NumV(w)) : tk \in {StrV(Chars("CLZ5")), StrV(Chars("ES")), NumV(7)},
                             w \in {1000, -500}}

RECURSIVE SeqsUpTo(_, _)
\* the sequences of at most n elements of S
SeqsUpTo(S, n) ==
    IF n = 0 THEN {<<>>}
    ELSE LET shorter == SeqsUpTo(S, n - 1)
         IN shorter \cup {Append(q, x) : q \in {r \in shorter : Len(r) = n - 1}, x \in S}

\* the price tables fetchTickerPrices can return for the kept rows: one entry
\* per ticker key, "N/A" for a key no string ticker has
PriceTables(kept) ==
    LET keys == {Key(kept[k].TICKER) : k \in 1..Len(kept)}
        quoted == {Key(kept[k].TICKER) : k \in {j \in 1..Len(kept) : SendsRequest(kept[j].TICKER)}}
    IN  {pr \in [keys -> QuoteTexts] : \A key \in keys \ quoted : pr[key] = NA}

InitCalc ==
    /\ pc = "calc"
    /\ jsonData \in SeqsUpTo(CalcRows, MaxCalcRows)
    /\ prices \in PriceTables(Filtered(jsonData))
    /\ filteredData = <<>>
    /\ i = 0
    /\ batchResults = <<>>
    /\ inflight = {}
    /\ issued = 0
    /\ quoteRequests = <<>>
    /\ degraded = {}
    /\ settled = <<>>
    /\ dataWithContributions = <<>>
    /\ totalContribution = NumV(0)
    /\ responses = <<>>
    /\ excelRequests = 1
    /\ parsed = TRUE
    /\ excel = ExcelOutcome("resp", 200, "OK", "ok", "ok", Len(jsonData), "")
    /\ ticker = <<>>
    /\ resolved = NoResolution
    /\ dateNum = Undef
    /\ dateText = <<>>
    /\ quote = NoQuote
    /\ changeText = <<>>

\* index.js:39-91 and 634-639 with the prices at hand
Pipeline ==
    /\ pc = "calc"
    /\ filteredData' = Filtered(jsonData)
    /\ Finish(filteredData', prices)
    /\ UNCHANGED <<jsonData, i, batchResults, inflight, issued, degraded, prices,
                   excelRequests, parsed, excel, ticker, resolved, quoteRequests,
                   settled, dateNum, dateText, quote, changeText>>

SpecCalc == InitCalc /\ [][Pipeline]_vars

---------------------------------------------------------------------------
(* The pipeline over a fund of one holding (index.js:39-91, 275-339): the   *)
(* holding's contribution is the fund total, over every small weight, the   *)
(* weights whose contribution is shown as 0.00% included.                   *)

InitTotal ==
    /\ pc = "calc"
    /\ \E w \in (-MaxWeight)..MaxWeight :
          jsonData = <<Row(StrV(Chars("CLZ5")), NumV(w))>>
    /\ prices \in [{Chars("CLZ5")} -> QuoteTexts]
    /\ filteredData = <<>>
    /\ i = 0
    /\ batchResults = <<>>
    /\ inflight = {}
    /\ issued = 0
    /\ quoteRequests = <<>>
    /\ degraded = {}
    /\ settled = <<>>
    /\ dataWithContributions = <<>>
    /\ totalContribution = NumV(0)
    /\ responses = <<>>
    /\ excelRequests = 1
    /\ parsed = TRUE
    /\ excel = ExcelOutcome("resp", 200, "OK", "ok", "ok", 1, "")
    /\ ticker = <<>>
    /\ resolved = NoResolution
    /\ dateNum = Undef
    /\ dateText = <<>>
    /\ quote = NoQuote
    /\ changeText = <<>>

SpecTotal == InitTotal /\ [][Pipeline]_vars

---------------------------------------------------------------------------
(* The rendering of a DATE cell (index.js:77, 231-239) over numbers of 7, 8 *)
(* and 9 digits, a missing cell and every short string of digits and        *)
(* slashes, the empty one included.                                         *)

DateAlphabet == {"2", "/"}

DateCells ==
    {Undef, NumV(2024011), NumV(20240115), NumV(202401150)}
    \cup {StrV(str) : str \in SeqsUpTo(DateAlphabet, MaxDateLen)}

InitDate ==
    /\ pc = "render"
    /\ dateNum \in DateCells
    /\ dateText = <<>>
    /\ jsonData = <<>>
    /\ filteredData = <<>>
    /\ prices = <<>>
    /\ i = 0
    /\ batchResults = <<>>
    /\ inflight = {}
    /\ issued = 0
    /\ quoteRequests = <<>>
    /\ degraded = {}
    /\ settled = <<>>
    /\ dataWithContributions = <<>>
    /\ totalContribution = NumV(0)
    /\ responses = <<>>
    /\ excelRequests = 0
    /\ parsed = FALSE
    /\ excel = NoExcel
    /\ ticker = <<>>
    /\ resolved = NoResolution
    /\ quote = NoQuote
    /\ changeText = <<>>

\* 'Date': formatDate(row['DATE']) (index.js:77)
RenderDate ==
    /\ pc = "render"
    /\ dateText' = formatDate(dateNum)
    /\ pc' = "rendered"
    /\ UNCHANGED <<jsonData, filteredData, i, batchResults, inflight, issued, degraded,
                   prices, dataWithContributions, totalContribution, responses,
                   excelRequests, parsed, excel, ticker, resolved, quoteRequests,
                   settled, dateNum, quote, changeText>>

SpecDate == InitDate /\ [][RenderDate]_vars

---------------------------------------------------------------------------
(* One quote from the chart endpoint (index.js:168-206): fetchSinglePrice   *)
(* for a ticker of the Yahoo path over every answer of the endpoint: no     *)
(* connection, a status that is not ok, a body that is not JSON, a body     *)
(* without metadata, and metadata whose three price fields are each         *)
(* missing, 0 or a small price.                                             *)

PriceStep == 50

PriceCells == {Undef} \cup {NumV(PriceStep * k) : k \in 0..MaxPriceSteps}

ChartAnswers ==
    {QuoteOutcome("reject", FALSE, FALSE, FALSE, Undef, Undef, Undef, <<>>),
     QuoteOutcome("resp", FALSE, TRUE, TRUE, NumV(PriceStep), NumV(PriceStep), NumV(PriceStep), <<>>),
     QuoteOutcome("resp", TRUE, FALSE, FALSE, Undef, Undef, Undef, <<>>),
     QuoteOutcome("resp", TRUE, TRUE, FALSE, Undef, Undef, Undef, <<>>)}
    \cup {QuoteOutcome("resp", TRUE, TRUE, TRUE, price, chartPrev, prev, <<>>) :
             price \in PriceCells, chartPrev \in PriceCells, prev \in PriceCells}

InitQuote ==
    /\ pc = "quote"
    /\ ticker \in {Chars("CLZ5"), Chars("ES")}
    /\ quote \in ChartAnswers
    /\ changeText = <<>>
    /\ resolved = NoResolution
    /\ dateNum = Undef
    /\ dateText = <<>>
    /\ jsonData = <<>>
    /\ filteredData = <<>>
    /\ prices = <<>>
    /\ i = 0
    /\ batchResults = <<>>
    /\ inflight = {}
    /\ issued = 0
    /\ quoteRequests = <<>>
    /\ degraded = {}
    /\ settled = <<>>
    /\ dataWithContributions = <<>>
    /\ totalContribution = NumV(0)
    /\ responses = <<>>
    /\ excelRequests = 0
    /\ parsed = FALSE
    /\ excel = NoExcel

\* fetchSinglePrice(ticker) with the endpoint answering `quote`
FetchQuote ==
    /\ pc = "quote"
    /\ changeText' = fetchSinglePrice(StrV(ticker), quote).v
    /\ pc' = "quoted"
    /\ UNCHANGED <<jsonData, filteredData, i, batchResults, inflight, issued, degraded,
                   prices, dataWithContributions, totalContribution, responses,
                   excelRequests, parsed, excel, ticker, resolved, quoteRequests,
                   settled, dateNum, dateText, quote>>

SpecQuote == InitQuote /\ [][FetchQuote]_vars

---------------------------------------------------------------------------
(* The enrichment of one holding (index.js:50-68) over every weight cell    *)
(* and every price entry, a missing one included.                           *)

WeightCells == {Undef, NaN, StrV(<<"x">>), StrV(<<"1">>), NumV(0), NumV(1000), NumV(-500)}

EntryTexts == QuoteTexts \cup {<<>>, Chars("+0.00%")}

InitEnrich ==
    /\ pc = "enrich"
    /\ \E tk \in {StrV(Chars("CLZ5")), NumV(7)}, w \in WeightCells :
          /\ jsonData = <<Row(tk, w)>>
          /\ filteredData = jsonData
          /\ prices \in {<<>>} \cup [{Key(tk)} -> EntryTexts]
    /\ i = 0
    /\ batchResults = <<>>
    /\ inflight = {}
    /\ issued = 0
    /\ quoteRequests = <<>>
    /\ degraded = {}
    /\ settled = <<>>
    /\ dataWithContributions = <<>>
    /\ totalContribution = NumV(0)
    /\ responses = <<>>
    /\ excelRequests = 1
    /\ parsed = TRUE
    /\ excel = ExcelOutcome("resp", 200, "OK", "ok", "ok", 1, "")
    /\ ticker = <<>>
    /\ resolved = NoResolution
    /\ dateNum = Undef
    /\ dateText = <<>>
    /\ quote = NoQuote
    /\ changeText = <<>>

\* filteredData.map(...) of index.js:50-68
EnrichRows ==
    /\ pc = "enrich"
    /\ dataWithContributions' = WithContributions(filteredData, prices)
    /\ pc' = "enriched"
    /\ UNCHANGED <<jsonData, filteredData, i, batchResults, inflight, issued, degraded,
                   prices, totalContribution, responses, excelRequests, parsed, excel,
                   ticker, resolved, quoteRequests, settled, dateNum, dateText, quote,
                   changeText>>

SpecEnrich == InitEnrich /\ [][EnrichRows]_vars

---------------------------------------------------------------------------
(* The symbol resolver on its own (index.js:154-171, 209-228) over every    *)
(* short ticker string.                                                     *)

TickerAlphabet == {"M", "F", "E", "S", "5", "x"}

InitSymbol ==
    /\ pc = "resolve"
    /\ ticker \in SeqsUpTo(TickerAlphabet, MaxTickerLen) \ {<<>>}
    /\ resolved = NoResolution
    /\ dateNum = Undef
    /\ dateText = <<>>
    /\ quote = NoQuote
    /\ changeText = <<>>
    /\ jsonData = <<>>
    /\ filteredData = <<>>
    /\ i = 0
    /\ batchResults = <<>>
    /\ inflight = {}
    /\ issued = 0
    /\ quoteRequests = <<>>
    /\ degraded = {}
    /\ settled = <<>>
    /\ prices = <<>>
    /\ dataWithContributions = <<>>
    /\ totalContribution = NumV(0)
    /\ responses = <<>>
    /\ excelRequests = 0
    /\ parsed = FALSE
    /\ excel = NoExcel

\* fetchSinglePrice up to the request it sends (index.js:154-171)
Resolve ==
    /\ pc = "resolve"
    /\ resolved' = [prefix |-> commodityPrefix(ticker),
                    source |-> Route(ticker).source,
                    symbol |-> Route(ticker).symbol]
    /\ pc' = "resolved"
    /\ UNCHANGED <<jsonData, filteredData, i, batchResults, inflight, issued, degraded,
                   prices, dataWithContributions, totalContribution, responses,
                   excelRequests, parsed, excel, ticker, quoteRequests, settled,
                   dateNum, dateText, quote, changeText>>

SpecSymbol == InitSymbol /\ [][Resolve]_vars

---------------------------------------------------------------------------
(* Claims about a request, checked under Spec *)

IsPage(r) ==
    /\ r.status = 200
    /\ r.contentType[1] = "text/html"
    /\ r.cacheControl = "public, max-age=300"

IsPlainError(r) ==
    /\ r.status = 500
    /\ r.contentType = <<"text/plain">>

\* C1: whatever a quote fetch meets (no connection, a status that is not ok, a
\* body that is not JSON, missing fields, a ticker that is no string), its
\* promise is never rejected and is fulfilled with "N/A"; every other fetch of
\* the batch is fulfilled with the text of its own quote ("+2.00%" from the
\* chart endpoint, "-0.54%" from the Barchart page of the two MSCI contracts);
\* and the request that started quote fetches ends with the HTML page.
C1_QuoteFailuresAbsorbed ==
    /\ \A p \in DOMAIN batchResults :
        /\ batchResults[p].st # "rejected"
        /\ batchResults[p].st = "fulfilled" =>
              batchResults[p].v =
                 IF p \in degraded THEN <<"N", "/", "A">>
                 ELSE IF filteredData[p].TICKER.s \in {Chars("MFSZ5"), Chars("MESZ5")}
                      THEN Chars("-0.54%")
                      ELSE Chars("+2.00%")
    /\ pc = "done" /\ issued > 0 =>
          /\ Len(responses) = 1
          /\ IsPage(responses[1])
          /\ Len(responses[1].body.table.rows) = Len(filteredData)

\* C1 witness: a request over two batches is done with the page although two
\* quote requests failed and one ticker was no string, and a row shows a quote.
C1_Witness ==
    /\ pc = "done"
    /\ issued > batchSize
    /\ Cardinality(Failures) >= 2
    /\ \E p \in degraded : ~SendsRequest(filteredData[p].TICKER)
    /\ Len(responses) = 1 /\ IsPage(responses[1])
    /\ \E k \in 1..Len(responses[1].body.table.rows) :
          responses[1].body.table.rows[k].DailyChange = Chars("+2.00%")

\* C2: at most 10 quote requests are outstanding at any time.
C2_AtMostTenOutstanding == Cardinality(inflight) <= 10

\* C2 witness: ten quote requests are outstanding and more rows are to come.
C2_Witness ==
    /\ Cardinality(inflight) = 10
    /\ Len(filteredData) > 10

\* C3: while a quote request of batch k (positions 10k+1 .. 10k+10, counted from
\* 1) is outstanding, fetchSinglePrice has been called for no position behind
\* that batch.
C3_BatchesSequential ==
    \A p \in inflight : issued <= 10 * (((p - 1) \div 10) + 1)

\* C3 witness: the second batch is in flight after a first batch in which a
\* request failed and another delivered a quote.
C3_Witness ==
    /\ i = 10
    /\ inflight # {}
    /\ \E p \in Failures : p <= 10
    /\ \E k \in DOMAIN prices : prices[k] = Chars("+2.00%")

\* C4 as claimed: when the spreadsheet fetch fails (no connection, or a status
\* outside 2xx) the response is a 500 whose body carries the upstream status
\* and reason text, and nothing was parsed and no quote was fetched.
C4_AsClaimed ==
    pc = "done" /\ (excel.net = "reject" \/ excel.status \notin 200..299) =>
        /\ Len(responses) = 1
        /\ responses[1].status = 500
        /\ responses[1].body.kind = "Failed to fetch Excel file"
        /\ responses[1].body.status = excel.status
        /\ responses[1].body.statusText = excel.statusText
        /\ ~parsed
        /\ issued = 0
    /\ quoteRequests = <<>>

\* C4 amended: a spreadsheet response with a status outside 2xx yields a 500
\* whose body carries that status and its reason text; a spreadsheet request
\* that fails without a response yields a 500 whose body carries the message of
\* the error; in both cases nothing is parsed and no quote is fetched.
C4_UpstreamFailure ==
    pc = "done" /\ (excel.net = "reject" \/ excel.status \notin 200..299) =>
        /\ Len(responses) = 1
        /\ IsPlainError(responses[1])
        /\ IF excel.net = "reject"
           THEN /\ responses[1].body.kind = "Error processing Excel file"
                /\ responses[1].body.message = excel.message
           ELSE /\ responses[1].body.kind = "Failed to fetch Excel file"
                /\ responses[1].body.status = excel.status
                /\ responses[1].body.statusText = excel.statusText
        /\ ~parsed
        /\ issued = 0 /\ inflight = {}

\* C4 witness: the source answered 404 and the 500 response names 404.
C4_Witness ==
    /\ pc = "done"
    /\ excel.net = "resp" /\ excel.status = 404
    /\ responses[1].status = 500
    /\ responses[1].body.status = 404 /\ responses[1].body.statusText = "Not Found"

\* C5: the handler never returns more than one response and has returned
\* exactly one when it is done; a response is the 200 text/html page with
\* Cache-Control 'public, max-age=300' or a 500 text/plain; a request whose
\* pipeline threw (the fetch, the body, XLSX.read) ends with the 500 text/plain
\* carrying the message of the error.
C5_OneResponseOfTwoShapes ==
    /\ pc \in {"start", "awaitExcel", "awaitBatch", "done"}
    /\ Len(responses) = IF pc = "done" THEN 1 ELSE 0
    /\ \A k \in 1..Len(responses) : IsPage(responses[k]) \/ IsPlainError(responses[k])
    /\ pc = "done" /\ (excel.net = "reject" \/ excel.body = "abort" \/ excel.xlsx = "corrupt") =>
          /\ IsPlainError(responses[1])
          /\ responses[1].body.kind = "Error processing Excel file"
          /\ responses[1].body.message = excel.message

\* C5 witness: XLSX.read threw and the request is done with the 500 carrying
\* the message.
C5_Witness ==
    /\ pc = "done"
    /\ excel.xlsx = "corrupt"
    /\ Len(responses) = 1 /\ IsPlainError(responses[1])
    /\ responses[1].body.message = "Unsupported ZIP file"

---------------------------------------------------------------------------
(* Claims about the pipeline, checked under SpecCalc, SpecEnrich, SpecSymbol *)

\* the text of a cell, a missing cell being empty
CellText(v) == IF v.t = "undef" THEN <<>> ELSE JSString(v)

HasTickerText(row) == Trim(CellText(row.TICKER)) # <<>>

\* C6 as claimed: the kept rows are exactly the rows whose TICKER cell, as
\* text and trimmed, is not empty (the number 0 included), in source order.
C6_AsClaimed ==
    pc = "done" => filteredData = SelectSeq(jsonData, HasTickerText)

C8_NoQuoteNoContribution ==
    pc = "enriched" =>
        \A k \in 1..Len(dataWithContributions) :
            LET key == Key(filteredData[k].TICKER)
            IN  (key \notin DOMAIN prices \/ prices[key] = <<"N", "/", "A">>) =>
                    /\ dataWithContributions[k].contribution = NumV(0)
                    /\ dataWithContributions[k].dailyChangePct = NumV(0)

\* C8 witness: a holding without a PCT_HOLDINGS cell and with the entry "N/A"
\* was enriched.
C8_Witness ==
    /\ pc = "enriched"
    /\ filteredData[1].PCT_HOLDINGS = Undef
    /\ Key(filteredData[1].TICKER) \in DOMAIN prices
    /\ prices[Key(filteredData[1].TICKER)] = <<"N", "/", "A">>
    /\ dataWithContributions[1].contribution = NumV(0)

\* the hundredths of a percent a price text stands for
Hundredths(text) ==
    CASE text = Chars("+2.00%") -> 200
      [] text = Chars("-1.00%") -> -100
      [] OTHER -> 0

\* the contribution of kept row k, in units of 1e-8
Expected(k) ==
    filteredData[k].PCT_HOLDINGS.n * Hundredths(prices[Key(filteredData[k].TICKER)])

ExpectedTotal ==
    LET Sum[k \in 0..Len(filteredData)] == IF k = 0 THEN 0 ELSE Sum[k - 1] + Expected(k)
    IN  Sum[Len(filteredData)]

\* C10: the fund total is the sum of the contributions of all kept holdings
\* taken in source order, a holding with "N/A" counting 0; no holding is left
\* out of the ranked list; the aggregate row shows this total.
C10_TotalIsSum ==
    pc = "done" =>
        /\ Len(dataWithContributions) = Len(filteredData)
        /\ totalContribution = NumV(ExpectedTotal)
        /\ Len(filteredData) > 0 =>
              responses[1].body.table.total = FormatChangeNumber(ExpectedTotal, 1000000)

\* C10 witness: contributions -0.10%, 0 ("N/A") and +0.20%, ranked in the
\* reverse of their source order, total +0.10%.
C10_Witness ==
    /\ pc = "done"
    /\ Len(filteredData) = 3
    /\ filteredData[1] = Row(StrV(Chars("CLZ5")), NumV(-500))
    /\ filteredData[2] = Row(NumV(7), NumV(1000))
    /\ filteredData[3] = Row(StrV(Chars("ES")), NumV(1000))
    /\ prices[Chars("CLZ5")] = Chars("+2.00%")
    /\ prices[Chars("ES")] = Chars("+2.00%")
    /\ prices[<<"7">>] = <<"N", "/", "A">>
    /\ dataWithContributions[1].original = filteredData[3]
    /\ totalContribution = NumV(100000)
    /\ responses[1].body.table.total = <<"+", "0", ".", "1", "0", "%">>

---------------------------------------------------------------------------
(* Claims about the quote phase of a request, checked under Spec *)

\* C11: a response is returned only after every quote fetch of every batch has
\* settled: whenever a response exists, no quote request is outstanding,
\* fetchSinglePrice was called for every kept row and every call has returned;
\* so as long as a fetch stays unsettled the request has no response.
C11_ResponseAfterAllQuotes ==
    Len(responses) > 0 =>
        /\ inflight = {}
        /\ issued = Len(filteredData)
        /\ DOMAIN settled = 1..Len(filteredData)
        /\ \A p \in DOMAIN batchResults : batchResults[p].st = "fulfilled"

\* C11 witness: the page was returned after two batches, every one of the
\* twelve kept rows settled, eleven of them by a request.
C11_Witness ==
    /\ Len(responses) = 1 /\ IsPage(responses[1])
    /\ Len(filteredData) = 12
    /\ i = 2 * batchSize
    /\ Len(quoteRequests) = 11
    /\ DOMAIN settled = 1..12
    /\ inflight = {}

\* C12 as claimed: a request that reached the quote phase has sent exactly one
\* spreadsheet request and exactly one quote request for every kept row, a
\* ticker that occurs k times being requested k times, and none twice.
C12_AsClaimed ==
    pc = "done" /\ excel.xlsx = "ok" =>
        /\ excelRequests = 1
        /\ Len(quoteRequests) = Len(filteredData)
        /\ \A p \in 1..Len(filteredData) :
              Cardinality({j \in DOMAIN quoteRequests : quoteRequests[j].position = p}) = 1

---------------------------------------------------------------------------
(* Claims about rendering, checked under SpecTotal and SpecDate *)

\* C13 as claimed: in a fund of one holding, whose contribution is the fund
\* total, the Contribution cell of the aggregate row gets the same colour class
\* as the Contribution cell of the holding's row, also when the value is shown
\* as 0.00%.
C13_AsClaimed ==
    pc = "done" /\ Len(filteredData) = 1 =>
        responses[1].body.table.totalClass
            = responses[1].body.table.rows[1].contributionClass

\* the text YYYYMMDD as YYYY-MM-DD
Punctuated(text) ==
    SubSeq(text, 1, 4) \o <<"-">> \o SubSeq(text, 5, 6) \o <<"-">> \o SubSeq(text, 7, 8)

\* C14 as claimed: a raw date is rendered as YYYY-MM-DD exactly when it is a
\* number of 8 digits (as a number or as text), and every other raw value is
\* rendered as its own text, unchanged; an 8-character value that is not all
\* digits is not re-punctuated.
C14_AsClaimed ==
    pc = "rendered" =>
        LET raw == CellText(dateNum)
        IN  dateText = IF Len(raw) = 8 /\ \A k \in 1..8 : IsDigit(raw[k])
                       THEN Punctuated(raw)
                       ELSE raw

---------------------------------------------------------------------------
(* Claims about symbol resolution and quotes, checked under SpecSymbol and  *)
(* SpecQuote                                                                *)

LowerLetters ==
    {"a", "b", "c", "d", "e", "f", "g", "h", "i", "j", "k", "l", "m",
     "n", "o", "p", "q", "r", "s", "t", "u", "v", "w", "x", "y", "z"}

\* the length of the longest leading run of s made of the characters of Letters
LeadingRun(s, Letters) ==
    Cardinality({k \in 1..Len(s) : \A j \in 1..k : s[j] \in Letters})

\* the prefix as the claim describes it, for a given reading of "letter"
ClaimedPrefix(s, Letters) ==
    LET run == LeadingRun(s, Letters)
    IN  IF run >= 2 /\ run < Len(s) /\ \A k \in (run + 1)..Len(s) : IsDigit(s[k])
            THEN SubSeq(s, 1, run - 1)
        ELSE IF run >= 1 THEN SubSeq(s, 1, run)
        ELSE s

\* C15 as claimed: for a ticker made of two or more letters followed by one or
\* more digits the prefix is the letters without the last one; otherwise it is
\* the longest leading run of letters; without such a run it is the whole
\* ticker; a letter being any alphabetic character.  The Yahoo symbol is built
\* on this same prefix.
C15_AsClaimed ==
    pc = "resolved" =>
        /\ resolved.prefix = ClaimedPrefix(ticker, UpperLetters \cup LowerLetters)
        /\ resolved.source = "yahoo" =>
              resolved.symbol \in {resolved.prefix \o <<"=", "F">>, resolved.prefix}

\* C15 amended: the same with a letter being a capital letter A-Z only: a
\* ticker made of two or more capitals followed by one or more digits has the
\* capitals without the last one as prefix; otherwise the prefix is the longest
\* leading run of capitals; a ticker that does not start with a capital (a
\* lower-case one included) is its own prefix.  The Yahoo symbol is built on
\* this same prefix.
C15_PrefixOfCapitals ==
    pc = "resolved" =>
        /\ resolved.prefix = ClaimedPrefix(ticker, UpperLetters)
        /\ resolved.source = "yahoo" =>
              resolved.symbol \in {resolved.prefix \o <<"=", "F">>, resolved.prefix}

\* C15 witness: a ticker of two lower-case letters and a digit was resolved
\* and is its own prefix.
C15_Witness ==
    /\ pc = "resolved"
    /\ ticker = <<"x", "x", "5">>
    /\ resolved.prefix = <<"x", "x", "5">>
    /\ resolved.source = "yahoo"

\* a price field that is there
Present(v) == v.t # "undef"

\* the previous close the chart answer offers: the chart's own field when it is
\* there and not 0, else the other field
OfferedClose(o) ==
    IF Present(o.chartPreviousClose) /\ o.chartPreviousClose.n # 0
    THEN o.chartPreviousClose ELSE o.previousClose

\* C16 as claimed: after an HTTP success of the chart endpoint the result is
\* the percent change (current - previous) / previous * 100, with sign and two
\* decimals, exactly when the metadata is there, the current price is there
\* (0 included, which gives "-100.00%") and the previous close is there and is
\* not 0; in every other case it is "N/A".
C16_AsClaimed ==
    pc = "quoted" /\ quote.net = "resp" /\ quote.ok =>
        LET current == quote.regularMarketPrice
            previous == OfferedClose(quote)
        IN  changeText =
              IF /\ quote.json /\ quote.meta
                 /\ Present(current)
                 /\ Present(previous) /\ previous.n # 0
              THEN FormatChangeNumber((current.n - previous.n) * 100, previous.n)
              ELSE <<"N", "/", "A">>

\* C17 as claimed: when the metadata has a previousClose that is not 0, the
\* percent change is computed from it, whatever chartPreviousClose holds.
C17_AsClaimed ==
    /\ pc = "quoted" /\ quote.net = "resp" /\ quote.ok /\ quote.json /\ quote.meta
    /\ Present(quote.regularMarketPrice) /\ quote.regularMarketPrice.n # 0
    /\ Present(quote.previousClose) /\ quote.previousClose.n # 0
    => changeText = FormatChangeNumber(
                        (quote.regularMarketPrice.n - quote.previousClose.n) * 100,
                        quote.previousClose.n)

\* C17 amended: the percent change is computed from chartPreviousClose whenever
\* that field is there and not 0, whatever previousClose holds; previousClose
\* is used only when chartPreviousClose is missing or 0.
C17_ChartCloseFirst ==
    /\ pc = "quoted" /\ quote.net = "resp" /\ quote.ok /\ quote.json /\ quote.meta
    /\ Present(quote.regularMarketPrice) /\ quote.regularMarketPrice.n # 0
    => IF Present(quote.chartPreviousClose) /\ quote.chartPreviousClose.n # 0
       THEN changeText = FormatChangeNumber(
                (quote.regularMarketPrice.n - quote.chartPreviousClose.n) * 100,
                quote.chartPreviousClose.n)
       ELSE IF Present(quote.previousClose) /\ quote.previousClose.n # 0
       THEN changeText = FormatChangeNumber(
                (quote.regularMarketPrice.n - quote.previousClose.n) * 100,
                quote.previousClose.n)
       ELSE changeText = <<"N", "/", "A">>

\* C17 witness: price 100, chartPreviousClose 50 and previousClose 100 gave
\* "+100.00%", the change from the chart's close.
C17_Witness ==
    /\ pc = "quoted"
    /\ quote.regularMarketPrice = NumV(100)
    /\ quote.chartPreviousClose = NumV(50)
    /\ quote.previousClose = NumV(100)
    /\ changeText = <<"+", "1", "0", "0", ".", "0", "0", "%">>

---------------------------------------------------------------------------
(* Claims about the end of a request, checked under FairSpec and Spec *)

\* C18: when the spreadsheet request and every quote request that was sent
\* settle in the end, a request that was made gets its response in the end; a
\* request whose sheet was parsed ends with the page after ceil(kept rows / 10)
\* batches; and with no kept row no quote is fetched and the page carries the
\* message 'No holdings with tickers found.'.
C18_EveryRequestAnswered ==
    /\ (excelRequests = 1) ~> (pc = "done" /\ Len(responses) = 1)
    /\ [](pc = "done" /\ excel.xlsx = "ok" =>
            /\ IsPage(responses[1])
            /\ i = 10 * ((Len(filteredData) + 9) \div 10)
            /\ Len(filteredData) = 0 =>
                  /\ issued = 0 /\ quoteRequests = <<>>
                  /\ responses[1].body.table.message = "No holdings with tickers found.")

\* C18 witness: a request over twelve kept rows ended with the page after two
\* batches, two of its quote requests having failed.
C18_Witness ==
    /\ pc = "done"
    /\ excelRequests = 1 /\ excel.xlsx = "ok"
    /\ Len(filteredData) = 12 /\ i = 20
    /\ Cardinality(Failures) = 2
    /\ Len(responses) = 1 /\ IsPage(responses[1])
    /\ responses[1].body.table.message = ""

\* the last kept row whose ticker is stored under the key of tk
LastOccurrence(kept, tk) ==
    CHOOSE p \in 1..Len(kept) :
        /\ Key(kept[p].TICKER) = Key(tk)
        /\ \A q \in (p + 1)..Len(kept) : Key(kept[q].TICKER) # Key(tk)

\* C19: results are stored under the ticker with last-write-wins: once the page
\* is returned every kept row has an entry in prices, and every row of the
\* table shows as its Daily Change what fetchSinglePrice returned for the last
\* kept row with the same ticker, in whatever order the requests settled and
\* whatever was returned for the earlier rows with that ticker.
C19_LastWriteWins ==
    pc = "done" /\ Len(responses) = 1 /\ IsPage(responses[1]) =>
        /\ Len(responses[1].body.table.rows) = Len(filteredData)
        /\ \A p \in 1..Len(filteredData) : Key(filteredData[p].TICKER) \in DOMAIN prices
        /\ \A k \in 1..Len(dataWithContributions) :
              LET tk == dataWithContributions[k].original.TICKER
                  last == LastOccurrence(filteredData, tk)
              IN  /\ prices[Key(tk)] = settled[last]
                  /\ responses[1].body.table.rows[k].Ticker = tk
                  /\ responses[1].body.table.rows[k].DailyChange = settled[last]

\* C19 witness: of the three kept rows with the ticker MESZ5 the first two got
\* a change from the provider and the last, fetched in the second batch, got
\* N/A; the page shows N/A for all three.
C19_Witness ==
    /\ pc = "done" /\ Len(responses) = 1 /\ IsPage(responses[1])
    /\ Len(filteredData) = 12
    /\ \A p \in {3, 7, 12} : filteredData[p].TICKER = StrV(Chars("MESZ5"))
    /\ settled[3] # NA /\ settled[7] # NA /\ settled[12] = NA
    /\ Cardinality({k \in 1..12 :
            /\ responses[1].body.table.rows[k].Ticker = StrV(Chars("MESZ5"))
            /\ responses[1].body.table.rows[k].DailyChange = NA}) = 3

=============================================================================
